---- MODULE Spec2Model ----
(***************************************************************************)
(* Elevator control system (src/Elevator/elevator.py).                     *)
(*                                                                         *)
(* One ElevatorController instance and its caller.  The caller assembles   *)
(* a list of (location, command) pairs and hands it to process_commands    *)
(* or to simulate; the controller keeps current_floor and direction        *)
(* between calls.                                                          *)
(***************************************************************************)
EXTENDS Integers, Sequences, FiniteSets

\* ---------------------------------------------------------------- bounds
\* max_floor of the controller (constructor parameter, default 10).
MaxFloor == 3
\* Longest list of commands the caller hands over in one call.
MaxBatch == 2

\* ------------------------------------------------------------ constants
\* class Direction(IntEnum)
UP == 11
DOWN == 12
\* "location == 11": the request comes from inside the car.
CabLocation == 11
\* Python's None (self.direction before the first call, a hall request
\* whose destination is not known).
NoneV == -1
Floors == 1..MaxFloor

\* Python truthiness of an int-or-None value: None and 0 are falsy.
Truthy(x) == x # NoneV /\ x # 0

\* ------------------------------------------------------- list utilities
Range(s) == {s[i] : i \in 1..Len(s)}

RECURSIVE Sorted(_)
\* sorted(iterable) over distinct values: ascending list.
Sorted(S) ==
    IF S = {} THEN << >>
    ELSE LET m == CHOOSE x \in S : \A y \in S : x <= y
         IN  <<m>> \o Sorted(S \ {m})

RECURSIVE SortedReverse(_)
\* sorted(iterable, reverse=True) over distinct values: descending list.
SortedReverse(S) ==
    IF S = {} THEN << >>
    ELSE LET m == CHOOSE x \in S : \A y \in S : x >= y
         IN  <<m>> \o SortedReverse(S \ {m})

\* d[k] = v on a Python dict, modelled as a function on its key set.
DictSet(d, k, v) == [x \in (DOMAIN d) \cup {k} |-> IF x = k THEN v ELSE d[x]]

\* ------------------------------------------------------ _parse_commands
EmptyRequests ==
    [up_requests |-> << >>, down_requests |-> << >>, internal_requests |-> << >>]

\* Body of the for loop of _parse_commands, one (location, command) pair.
ParseStep(req, location, command) ==
    IF location = CabLocation
    THEN [req EXCEPT !.internal_requests = Append(@, command)]
    ELSE IF command = UP
    THEN [req EXCEPT !.up_requests = DictSet(@, location, NoneV)]
    ELSE IF command = DOWN
    THEN [req EXCEPT !.down_requests = DictSet(@, location, NoneV)]
    ELSE IF command > location
    THEN [req EXCEPT !.up_requests = DictSet(@, location, command)]
    ELSE [req EXCEPT !.down_requests = DictSet(@, location, command)]

RECURSIVE ParseLoop(_, _, _)
ParseLoop(commands, i, req) ==
    IF i > Len(commands) THEN req
    ELSE ParseLoop(commands, i + 1, ParseStep(req, commands[i][1], commands[i][2]))

parse_commands(commands) == ParseLoop(commands, 1, EmptyRequests)

\* --------------------------------------------- _determine_initial_direction
\* The resolver with the tie going to Down.
determine_initial_direction_gt(floor, up_floors, down_floors, internal_floors) ==
    LET up_count == Len(SelectSeq(up_floors, LAMBDA f : f >= floor))
        down_count == Len(SelectSeq(down_floors, LAMBDA f : f <= floor))
        internal_up == Len(SelectSeq(internal_floors, LAMBDA f : f > floor))
        internal_down == Len(SelectSeq(internal_floors, LAMBDA f : f < floor))
        total_up == up_count + internal_up
        total_down == down_count + internal_down
    IN  IF total_up > total_down THEN UP ELSE DOWN

determine_initial_direction(floor, up_floors, down_floors, internal_floors) ==
    LET up_count == Len(SelectSeq(up_floors, LAMBDA f : f >= floor))
        down_count == Len(SelectSeq(down_floors, LAMBDA f : f <= floor))
        internal_up == Len(SelectSeq(internal_floors, LAMBDA f : f > floor))
        internal_down == Len(SelectSeq(internal_floors, LAMBDA f : f < floor))
        total_up == up_count + internal_up
        total_down == down_count + internal_down
    IN  IF total_up >= total_down THEN UP ELSE DOWN

\* ------------------------------------------------ _calculate_optimal_route
UpFloors(requests) == Sorted(DOMAIN requests.up_requests)
DownFloors(requests) == SortedReverse(DOMAIN requests.down_requests)
InternalFloors(requests) == Sorted(Range(requests.internal_requests))

\* The direction resolved afresh on every call.
InitialDirectionAlways(floor, dir, requests) ==
    determine_initial_direction(floor, UpFloors(requests), DownFloors(requests),
                                InternalFloors(requests))

\* "if not self.direction: self.direction = self._determine_initial_direction(...)"
InitialDirection(floor, dir, requests) ==
    IF ~Truthy(dir)
    THEN determine_initial_direction(floor, UpFloors(requests), DownFloors(requests),
                                     InternalFloors(requests))
    ELSE dir

\* Stops of one dict of hall requests: every key, and its target when truthy.
HallStops(d) ==
    UNION {{floor} \cup (IF Truthy(d[floor]) THEN {d[floor]} ELSE {}) : floor \in DOMAIN d}

\* all_stops without the targets of the hall requests.
AllStopsNoTargets(current, requests) ==
    ((DOMAIN requests.up_requests) \cup (DOMAIN requests.down_requests)
        \cup Range(InternalFloors(requests))) \ {current}

\* all_stops as it stands before the SCAN step.
AllStops(current, requests) ==
    (HallStops(requests.up_requests) \cup HallStops(requests.down_requests)
        \cup Range(InternalFloors(requests))) \ {current}

\* The SCAN step taking the lower half first whatever the direction.
ScanRouteDownFirst(dir, current, all_stops) ==
    SortedReverse({f \in all_stops : f < current}) \o Sorted({f \in all_stops : f > current})

\* The SCAN step: up first or down first.
ScanRoute(dir, current, all_stops) ==
    IF dir = UP \/ (dir = NoneV /\ \E f \in all_stops : f > current)
    THEN LET up_stops == Sorted({f \in all_stops : f > current})
             down_stops == SortedReverse({f \in all_stops : f < current})
         IN  up_stops \o down_stops
    ELSE LET down_stops == SortedReverse({f \in all_stops : f < current})
             up_stops == Sorted({f \in all_stops : f > current})
         IN  down_stops \o up_stops

\* The direction the call leaves in self.direction, and the list it returns.
calculate_optimal_route(floor, dir, requests) ==
    LET d == InitialDirection(floor, dir, requests)
    IN  [direction |-> d, route |-> ScanRoute(d, floor, AllStops(floor, requests))]

\* ---------------------------------------------------------------- state
VARIABLES
    current_floor,  \* self.current_floor
    direction,      \* self.direction
    commands,       \* the caller's list: being assembled, or as last handed over
    route,          \* the list the last call computed
    pc,             \* "caller", or the method that has just returned
    floor0,         \* self.current_floor when the last call began
    dir0            \* self.direction when the last call began

vars == <<current_floor, direction, commands, route, pc, floor0, dir0>>

\* Requests within the documented ranges: location 1..max_floor or 11,
\* command 1..max_floor, 11 or 12.
ValidRequests == (Floors \cup {CabLocation}) \X (Floors \cup {UP, DOWN})
\* The same, with one origin below the floors (0) and one command past the
\* direction markers (13): values no documented range allows.
AnyRequests ==
    (Floors \cup {CabLocation, 0}) \X (Floors \cup {UP, DOWN, DOWN + 1})

\* ElevatorController(initial_floor)
Init ==
    /\ current_floor \in Floors
    /\ direction = NoneV
    /\ commands = << >>
    /\ route = << >>
    /\ pc = "caller"
    /\ floor0 = current_floor
    /\ dir0 = NoneV

\* The caller starts a new list of commands after a call has returned.
NewBatch ==
    /\ pc # "caller"
    /\ pc' = "caller"
    /\ commands' = << >>
    /\ route' = << >>
    /\ floor0' = current_floor
    /\ dir0' = direction
    /\ UNCHANGED <<current_floor, direction>>

\* The caller adds one (location, command) pair to its list.
Submit(r) ==
    /\ pc = "caller"
    /\ Len(commands) < MaxBatch
    /\ commands' = Append(commands, r)
    /\ UNCHANGED <<current_floor, direction, route, pc, floor0, dir0>>

\* controller.process_commands(commands)
ProcessCommands ==
    /\ pc = "caller"
    /\ LET res == calculate_optimal_route(current_floor, direction, parse_commands(commands))
       IN  /\ direction' = res.direction
           /\ route' = res.route
    /\ pc' = "process_commands"
    /\ floor0' = current_floor
    /\ dir0' = direction
    /\ UNCHANGED <<current_floor, commands>>

\* controller.simulate(commands): process_commands, then visit every stop.
Simulate ==
    /\ pc = "caller"
    /\ LET res == calculate_optimal_route(current_floor, direction, parse_commands(commands))
       IN  /\ direction' = res.direction
           /\ route' = res.route
           /\ current_floor' = IF res.route = << >> THEN current_floor
                               ELSE res.route[Len(res.route)]
    /\ pc' = "simulate"
    /\ floor0' = current_floor
    /\ dir0' = direction
    /\ UNCHANGED commands

Next ==
    \/ NewBatch
    \/ \E r \in ValidRequests : Submit(r)
    \/ ProcessCommands
    \/ Simulate

Spec == Init /\ [][Next]_vars

NextAny ==
    \/ NewBatch
    \/ \E r \in AnyRequests : Submit(r)
    \/ ProcessCommands
    \/ Simulate

SpecAny == Init /\ [][NextAny]_vars

\* ------------------------------------------- the designed behaviour
\* The vocabulary of the design document, defined on the caller's list
\* alone, independently of the code above.
Returned == pc # "caller"

ValidRequest(r) ==
    /\ r[1] \in Floors \cup {CabLocation}
    /\ r[2] \in Floors \cup {UP, DOWN}
ValidBatch(cs) == \A i \in 1..Len(cs) : ValidRequest(cs[i])

IsHall(r) == r[1] # CabLocation
IsConcrete(r) == r[2] \notin {UP, DOWN}
Degenerate(r) == IsHall(r) /\ IsConcrete(r) /\ r[2] = r[1]
NoDegenerate(cs) == \A i \in 1..Len(cs) : ~Degenerate(cs[i])
NoRepeatedOrigin(cs) ==
    \A i, j \in 1..Len(cs) : (i # j /\ IsHall(cs[i])) => cs[i][1] # cs[j][1]

\* RequestClassifier of the design: markers never overwrite an entry,
\* degenerate requests are dropped, cab calls are a set.
ClassifyStep(c, r) ==
    IF ~IsHall(r) THEN [c EXCEPT !.CabCalls = @ \cup {r[2]}]
    ELSE IF r[2] = UP
    THEN IF r[1] \in DOMAIN c.HallUp THEN c
         ELSE [c EXCEPT !.HallUp = DictSet(@, r[1], NoneV)]
    ELSE IF r[2] = DOWN
    THEN IF r[1] \in DOMAIN c.HallDown THEN c
         ELSE [c EXCEPT !.HallDown = DictSet(@, r[1], NoneV)]
    ELSE IF r[2] > r[1] THEN [c EXCEPT !.HallUp = DictSet(@, r[1], r[2])]
    ELSE IF r[2] < r[1] THEN [c EXCEPT !.HallDown = DictSet(@, r[1], r[2])]
    ELSE c

RECURSIVE ClassifyLoop(_, _, _)
ClassifyLoop(cs, i, c) ==
    IF i > Len(cs) THEN c ELSE ClassifyLoop(cs, i + 1, ClassifyStep(c, cs[i]))

Classify(cs) ==
    ClassifyLoop(cs, 1, [HallUp |-> << >>, HallDown |-> << >>, CabCalls |-> {}])

Flatten(d) ==
    (DOMAIN d) \cup {d[o] : o \in {x \in DOMAIN d : d[x] # NoneV}}

\* StopSet of the design: hall origins, their known destinations and the
\* cab calls, the current floor excluded.
StopSet(cur, cs) ==
    LET c == Classify(cs)
    IN  (Flatten(c.HallUp) \cup Flatten(c.HallDown) \cup c.CabCalls) \ {cur}

NoRepeat(s) == \A i, j \in 1..Len(s) : i # j => s[i] # s[j]
Ascending(s) == \A i \in 1..(Len(s) - 1) : s[i] < s[i + 1]
Descending(s) == \A i \in 1..(Len(s) - 1) : s[i] > s[i + 1]
Above(cur, S) == {f \in S : f > cur}
Below(cur, S) == {f \in S : f < cur}

\* ------------------------------------------------------------- claims

\* C1: for a current floor in 1..MaxFloor, any direction and any batch of
\* valid requests with no hall origin twice and no degenerate request, the
\* returned route has no repeated floor and its floors are exactly StopSet.
C1_RouteIsExactlyStopSet ==
    (/\ Returned
     /\ floor0 \in Floors
     /\ ValidBatch(commands)
     /\ NoRepeatedOrigin(commands)
     /\ NoDegenerate(commands))
    => /\ NoRepeat(route)
       /\ Range(route) = StopSet(floor0, commands)

\* A call on a controller already heading down, with a hall request that
\* carries a destination and a cab call, returned every other floor.
C1_Witness ==
    /\ Returned
    /\ floor0 \in Floors
    /\ dir0 = DOWN
    /\ ValidBatch(commands)
    /\ NoRepeatedOrigin(commands)
    /\ NoDegenerate(commands)
    /\ \E i \in 1..Len(commands) : IsHall(commands[i]) /\ IsConcrete(commands[i])
    /\ \E i \in 1..Len(commands) : ~IsHall(commands[i])
    /\ Range(route) = Floors \ {floor0}
    /\ Len(route) >= 2

\* Number of times the car, starting at cur and visiting r in order,
\* turns from going up to going down or back.
Reversals(cur, r) ==
    LET path == <<cur>> \o r
    IN  Cardinality({i \in 2..(Len(path) - 1) :
            (path[i] - path[i - 1]) * (path[i + 1] - path[i]) < 0})

UpThenDown(cur, r, S) ==
    \E k \in 0..Len(r) :
        /\ Ascending(SubSeq(r, 1, k))
        /\ Range(SubSeq(r, 1, k)) = Above(cur, S)
        /\ Descending(SubSeq(r, k + 1, Len(r)))
        /\ Range(SubSeq(r, k + 1, Len(r))) = Below(cur, S)

DownThenUp(cur, r, S) ==
    \E k \in 0..Len(r) :
        /\ Descending(SubSeq(r, 1, k))
        /\ Range(SubSeq(r, 1, k)) = Below(cur, S)
        /\ Ascending(SubSeq(r, k + 1, Len(r)))
        /\ Range(SubSeq(r, k + 1, Len(r))) = Above(cur, S)

\* C2: under Up the route is the stops above the current floor, ascending,
\* then the stops below, descending; under Down the stops below, descending,
\* then the stops above, ascending.  So the car reverses at most once, and
\* under Up with a stop above, the first floor is the nearest stop above.
C2_ScanOrder ==
    Returned =>
        LET S == AllStops(floor0, parse_commands(commands))
        IN  /\ direction \in {UP, DOWN}
            /\ direction = UP => UpThenDown(floor0, route, S)
            /\ direction = DOWN => DownThenUp(floor0, route, S)
            /\ Reversals(floor0, route) <= 1
            /\ (direction = UP /\ Above(floor0, S) # {}) =>
                   /\ route[1] \in Above(floor0, S)
                   /\ \A f \in Above(floor0, S) : route[1] <= f

\* A controller heading up before the call, with a stop above and a stop
\* below: up first, one reversal, then down.
C2_Witness ==
    /\ Returned
    /\ dir0 = UP
    /\ direction = UP
    /\ floor0 \in Floors
    /\ Range(route) \subseteq Floors
    /\ Above(floor0, Range(route)) # {}
    /\ Below(floor0, Range(route)) # {}
    /\ Reversals(floor0, route) = 1
    /\ NoDegenerate(commands)

\* C4: once the direction is Up or Down, every later call leaves it as it is.
C4_DirectionPersists ==
    [][(direction \in {UP, DOWN}) => (direction' = direction)]_vars

\* A later call on a controller heading up whose stops all lie below.
C4_Witness ==
    /\ Returned
    /\ dir0 = UP
    /\ direction = UP
    /\ route # << >>
    /\ \A i \in 1..Len(route) : route[i] < floor0

\* Demand as the resolver is handed it by the classifier.
TotalUp(cur, req) ==
    Cardinality({f \in DOMAIN req.up_requests : f >= cur})
        + Cardinality({f \in Range(req.internal_requests) : f > cur})
TotalDown(cur, req) ==
    Cardinality({f \in DOMAIN req.down_requests : f <= cur})
        + Cardinality({f \in Range(req.internal_requests) : f < cur})

\* C8: an Unset direction resolves to Up exactly when totalUp >= totalDown,
\* ties and no demand at all included, and to Down otherwise.
C8_ResolverRule ==
    (Returned /\ dir0 = NoneV) =>
        LET req == parse_commands(commands)
        IN  /\ direction \in {UP, DOWN}
            /\ direction = UP <=> TotalUp(floor0, req) >= TotalDown(floor0, req)

\* A tie with demand on both sides, resolved Up.
C8_Witness ==
    /\ Returned
    /\ dir0 = NoneV
    /\ direction = UP
    /\ TotalUp(floor0, parse_commands(commands)) = 1
    /\ TotalDown(floor0, parse_commands(commands)) = 1
    /\ NoDegenerate(commands)

\* C3: when StopSet is empty the call returns the empty route and leaves
\* direction (Unset included) and current_floor as they were.
C3_EmptyStopSetChangesNothing ==
    (Returned /\ ValidBatch(commands) /\ StopSet(floor0, commands) = {}) =>
        /\ route = << >>
        /\ direction = dir0
        /\ current_floor = floor0

\* C5: a batch with an origin or a command out of range fails as a whole
\* with InvalidRequest: no route, current floor and direction unchanged.
C5_InvalidBatchRejected ==
    (Returned /\ ~ValidBatch(commands)) =>
        /\ pc = "InvalidRequest"
        /\ route = << >>
        /\ current_floor = floor0
        /\ direction = dir0

\* The only requests of the batch for hall origin o are i, then j.
OnlyTwoFor(cs, i, j) ==
    /\ i < j
    /\ IsHall(cs[i])
    /\ cs[j][1] = cs[i][1]
    /\ \A k \in 1..Len(cs) : cs[k][1] = cs[i][1] => k \in {i, j}

\* C6: a concrete-destination request for a hall origin followed by a
\* direction marker for the same origin keeps the earlier destination in
\* the classified entry, in StopSet and in the route.
C6_FirstRequestWins ==
    (Returned /\ ValidBatch(commands)) =>
        \A i, j \in 1..Len(commands) :
            (/\ OnlyTwoFor(commands, i, j)
             /\ IsConcrete(commands[i])
             /\ ~Degenerate(commands[i])
             /\ ~IsConcrete(commands[j]))
            => LET o == commands[i][1]
                   d == commands[i][2]
                   req == parse_commands(commands)
               IN  /\ d > o => (o \in DOMAIN req.up_requests /\ req.up_requests[o] = d)
                   /\ d < o => (o \in DOMAIN req.down_requests /\ req.down_requests[o] = d)
                   /\ d \in Range(route) \cup {floor0}

\* The list cs without its i-th element.
RemoveAt(cs, i) == SubSeq(cs, 1, i - 1) \o SubSeq(cs, i + 1, Len(cs))

\* C7: a hall request whose concrete command equals its origin is dropped:
\* it enters neither HallUp nor HallDown, adds no stop, and the route is
\* the route of the batch without it.
C7_DegenerateDropped ==
    (Returned /\ ValidBatch(commands)) =>
        \A i \in 1..Len(commands) :
            Degenerate(commands[i]) =>
                LET o == commands[i][1]
                    req == parse_commands(commands)
                    rest == RemoveAt(commands, i)
                IN  /\ (\A k \in 1..Len(rest) : rest[k][1] # o) =>
                           o \notin (DOMAIN req.up_requests) \cup (DOMAIN req.down_requests)
                    /\ route = calculate_optimal_route(floor0, dir0,
                                                       parse_commands(rest)).route

\* C9: at the top floor with direction Unset and a non-empty StopSet, the
\* direction resolves to Down and the route is StopSet in descending order.
C9_TopFloorGoesDown ==
    (/\ Returned
     /\ floor0 = MaxFloor
     /\ dir0 = NoneV
     /\ ValidBatch(commands)
     /\ StopSet(floor0, commands) # {})
    => /\ direction = DOWN
       /\ route = SortedReverse(StopSet(floor0, commands))

\* C10: with every origin and command in range, every floor of every
\* route, and current_floor, lies in 1..MaxFloor.
C10_FloorsInRange ==
    /\ current_floor \in Floors
    /\ \A i \in 1..Len(route) : route[i] \in Floors

====
